---- MODULE Spec2Model ----
(***************************************************************************)
(* The syncspace-teams database: four tables under row-level security,     *)
(* two SECURITY DEFINER predicate functions, the updated_at triggers and   *)
(* the new-account bootstrap trigger.                                      *)
(*                                                                         *)
(* Every action is one SQL statement issued by an authenticated actor      *)
(* (auth.uid() = uid) in its own transaction, as the REST gateway issues   *)
(* them.  txnow is that transaction's now(): PostgreSQL's now() is the     *)
(* start time of the transaction, which is at most the wall clock `now`    *)
(* at which the statement runs.                                            *)
(*                                                                         *)
(* Columns that no policy, trigger or key reads (name, description,        *)
(* status, priority, due_date, assigned_to, created_at, joined_at, the     *)
(* surrogate ids of profiles and team_members) are left out of the rows.   *)
(* Accounts are created but never deleted.                                 *)
(*                                                                         *)
(* Two pages of the client run on top of the database: the Dashboard       *)
(* (fetchTeams and its change subscription) and CreateTeam (handleSubmit). *)
(* Their steps are the requests they send and the callbacks they run.      *)
(***************************************************************************)
EXTENDS Integers, Sequences, FiniteSets, TLC

\* A statement that names no row.
NULL == "NULL"

\* A nullable value is <<>> (SQL NULL, or a column left out of an INSERT or
\* of an UPDATE's SET list) or <<v>>.
Omitted == <<>>
Some(v) == <<v>>

\* Bounds of the model.
MaxTasks == 1
MaxClock == 2

\* The accounts, team ids and task ids the clients draw on.  A and B found
\* teams; C only ever joins them.
Users == {"A", "B", "C"}
Founders == {"A", "B"}
TeamIds == {1, 2}
TaskIds == 1..MaxTasks
Times == 0..MaxClock

\* team_members.role is closed by a CHECK constraint.
Roles == {"owner", "admin", "member"}

VARIABLES
    auth_users,    \* ids of the rows of auth.users
    profiles,      \* rows of public.profiles
    teams,         \* rows of public.teams
    team_members,  \* rows of public.team_members
    tasks,         \* rows of public.tasks
    now,           \* the database's wall clock
    result,        \* the statement just run and its outcome, until the
                   \* caller has taken it
    dashboard,     \* the Dashboard page of one signed-in user
    create_team    \* the CreateTeam page of one signed-in user

tables == <<auth_users, profiles, teams, team_members, tasks>>
client == <<dashboard, create_team>>
vars == <<auth_users, profiles, teams, team_members, tasks, now, result,
          dashboard, create_team>>

\* A statement op run as uid and its outcome: "ok", "denied" (row-level
\* security) or "violation" (a constraint), with the rows returned or
\* affected.  arg is what the statement names: the row of an INSERT, the key
\* in the WHERE clause of an UPDATE or DELETE, NULL for a SELECT.
Result(op, uid, arg, status, rows) ==
    [op |-> op, uid |-> uid, arg |-> arg, status |-> status, rows |-> rows]

\* No outcome is waiting for its caller.
Idle == [op |-> "idle"]

\* A fetchTeams call that is not running, and the Dashboard before it is
\* mounted: nothing displayed, no notification or timer pending.
FreeFetch == [pc |-> "free", rows |-> {}]
Unmounted ==
    [events |-> 0, timers |-> 0, fetches |-> <<>>, teams |-> {}]

\* The CreateTeam page before the form is submitted.
NotSubmitted == [pc |-> "idle", teamData |-> Omitted, toast |-> "none"]

\* A column DEFAULT, and COALESCE: the first value that is not NULL.
Default(v, d) == IF v = Omitted THEN d ELSE v[1]
Coalesce(a, b) == IF a # Omitted THEN a ELSE b

(***************************************************************************)
(* Access predicate functions                                              *)
(***************************************************************************)
\* Mutant: the team is not compared, so a member of any team passes.
is_team_member_AnyTeam(_user_id, _team_id) ==
    \E m \in team_members : m.user_id = _user_id

is_team_member(_user_id, _team_id) ==
    \E m \in team_members : m.user_id = _user_id /\ m.team_id = _team_id

is_team_owner(_user_id, _team_id) ==
    \E t \in teams : t.owner_id = _user_id /\ t.id = _team_id

(***************************************************************************)
(* Row-level policies, one definition per CREATE POLICY                    *)
(***************************************************************************)
ProfilesSelectUsing(uid, row) == uid = row.user_id
ProfilesInsertCheck(uid, row) == uid = row.user_id
ProfilesUpdateUsing(uid, row) == uid = row.user_id

TeamsSelectUsing(uid, row) ==
    uid = row.owner_id \/ is_team_member(uid, row.id)
TeamsInsertCheck(uid, row) == uid = row.owner_id
TeamsUpdateUsing(uid, row) == uid = row.owner_id
TeamsDeleteUsing(uid, row) == uid = row.owner_id

MembersSelectUsing(uid, row) == is_team_member(uid, row.team_id)
\* "Team owners can manage team members" is FOR ALL: it is one more
\* permissive policy of every command on team_members.
MembersOwnerAll(uid, row) == is_team_owner(uid, row.team_id)
\* Mutant: the joining user only has to exist.
MembersJoinCheck_AnyUser(uid, row) == row.user_id \in auth_users
MembersJoinCheck(uid, row) == uid = row.user_id

TasksSelectUsing(uid, row) == is_team_member(uid, row.team_id)
TasksInsertCheck(uid, row) ==
    is_team_member(uid, row.team_id) /\ uid = row.created_by
TasksUpdateUsing(uid, row) == is_team_member(uid, row.team_id)
\* Mutant: deleting is open to members, as updating is.
TasksDeleteUsing_Member(uid, row) == is_team_member(uid, row.team_id)
TasksDeleteUsing(uid, row) == is_team_owner(uid, row.team_id)

(***************************************************************************)
(* Row-level security as PostgreSQL applies the policies: the permissive   *)
(* policies of a command are OR-ed; a policy without WITH CHECK checks the *)
(* new row against its USING expression; an UPDATE or DELETE with a WHERE  *)
(* clause, and an INSERT with RETURNING, must also be allowed to read the  *)
(* row (the SELECT and ALL policies).  Every UPDATE and DELETE of the      *)
(* clients names its rows in a WHERE clause.                               *)
(***************************************************************************)
CanSelectProfile(uid, row) == ProfilesSelectUsing(uid, row)
CanInsertProfile(uid, row) == ProfilesInsertCheck(uid, row)
CanSeeToUpdateProfile(uid, row) ==
    ProfilesSelectUsing(uid, row) /\ ProfilesUpdateUsing(uid, row)
CanWriteProfile(uid, new) ==
    ProfilesSelectUsing(uid, new) /\ ProfilesUpdateUsing(uid, new)

CanSelectTeam(uid, row) == TeamsSelectUsing(uid, row)
CanInsertTeam(uid, row) ==
    TeamsInsertCheck(uid, row) /\ TeamsSelectUsing(uid, row)
CanSeeToUpdateTeam(uid, row) ==
    TeamsSelectUsing(uid, row) /\ TeamsUpdateUsing(uid, row)
CanWriteTeam(uid, new) ==
    TeamsSelectUsing(uid, new) /\ TeamsUpdateUsing(uid, new)
CanDeleteTeam(uid, row) ==
    TeamsSelectUsing(uid, row) /\ TeamsDeleteUsing(uid, row)

CanSelectMember(uid, row) ==
    MembersSelectUsing(uid, row) \/ MembersOwnerAll(uid, row)
CanInsertMember(uid, row) ==
    MembersOwnerAll(uid, row) \/ MembersJoinCheck(uid, row)
CanSeeToUpdateMember(uid, row) ==
    CanSelectMember(uid, row) /\ MembersOwnerAll(uid, row)
CanWriteMember(uid, new) ==
    CanSelectMember(uid, new) /\ MembersOwnerAll(uid, new)
CanDeleteMember(uid, row) ==
    CanSelectMember(uid, row) /\ MembersOwnerAll(uid, row)

CanSelectTask(uid, row) == TasksSelectUsing(uid, row)
CanInsertTask(uid, row) == TasksInsertCheck(uid, row)
CanSeeToUpdateTask(uid, row) ==
    TasksSelectUsing(uid, row) /\ TasksUpdateUsing(uid, row)
CanWriteTask(uid, new) ==
    TasksSelectUsing(uid, new) /\ TasksUpdateUsing(uid, new)
CanDeleteTask(uid, row) ==
    TasksSelectUsing(uid, row) /\ TasksDeleteUsing(uid, row)

(***************************************************************************)
(* Constraints: NOT NULL, CHECK, PRIMARY KEY / UNIQUE, REFERENCES          *)
(***************************************************************************)
TeamRowIds == {t.id : t \in teams}

\* row.username is nullable: <<>> or <<text>>.
ProfileConstraints(row, others) ==
    /\ row.username # Omitted
    /\ row.user_id \in auth_users
    /\ \A p \in others : /\ p.user_id # row.user_id
                          /\ p.username # row.username[1]

TeamConstraints(row, others) ==
    /\ row.owner_id \in auth_users
    /\ \A t \in others : t.id # row.id

MemberConstraints(row, others) ==
    /\ row.role \in Roles
    /\ row.team_id \in TeamRowIds
    /\ row.user_id \in auth_users
    /\ \A m \in others : ~(m.team_id = row.team_id /\ m.user_id = row.user_id)

TaskConstraints(row, others) ==
    /\ row.team_id \in TeamRowIds
    /\ row.created_by \in auth_users
    /\ \A k \in others : k.id # row.id

(***************************************************************************)
(* The updated_at trigger, BEFORE UPDATE on profiles, teams and tasks      *)
(***************************************************************************)
update_updated_at_column(new, txnow) == [new EXCEPT !.updated_at = txnow]

\* The outcome of a single-table write: status and the rows it leaves.
Outcome(denied, violated) ==
    IF denied THEN "denied" ELSE IF violated THEN "violation" ELSE "ok"

(***************************************************************************)
(* The gateway hands a statement's outcome to its caller.                  *)
(***************************************************************************)
Return ==
    /\ result.op # "idle"
    /\ result' = Idle
    /\ UNCHANGED <<tables, now, client>>

\* The wall clock advances.
Tick ==
    /\ result.op = "idle"
    /\ now < MaxClock
    /\ now' = now + 1
    /\ UNCHANGED <<tables, result, client>>

(***************************************************************************)
(* New-account bootstrap                                                   *)
(***************************************************************************)
\* split_part(email, '@', 1): the text before the first '@'.
RECURSIVE split_part_1(_)
split_part_1(s) ==
    IF s = <<>> \/ Head(s) = "@" THEN <<>>
    ELSE <<Head(s)>> \o split_part_1(Tail(s))

\* handle_new_user(): the profile row of the account NEW; its username is
\* nullable until the INSERT checks NOT NULL.
handle_new_user(id, email, meta_username, txnow) ==
    [user_id |-> id,
     username |-> Coalesce(meta_username,
                           IF email = Omitted THEN Omitted
                           ELSE Some(split_part_1(email[1]))),
     updated_at |-> txnow]

\* INSERT INTO auth.users by the sign-up service, with the AFTER INSERT
\* trigger on_auth_user_created in the same transaction: an exception of
\* the trigger's INSERT aborts the account's insert too.
CreateAccount(id, email, meta_username, txnow) ==
    LET new == handle_new_user(id, email, meta_username, txnow)
        ok == /\ new.username # Omitted
              /\ \A p \in profiles : /\ p.user_id # new.user_id
                                     /\ p.username # new.username[1]
        row == [new EXCEPT !.username = @[1]]
    IN  /\ result.op = "idle"
        /\ id \notin auth_users
        /\ auth_users' = IF ok THEN auth_users \cup {id} ELSE auth_users
        /\ profiles' = IF ok THEN profiles \cup {row} ELSE profiles
        /\ result' = Result("CreateAccount", id, NULL,
                            IF ok THEN "ok" ELSE "violation", {})
        /\ UNCHANGED <<teams, team_members, tasks, now>>

(***************************************************************************)
(* Statements on public.profiles                                           *)
(***************************************************************************)
SelectProfiles(uid) ==
    /\ result.op = "idle"
    /\ result' = Result("SelectProfiles", uid, NULL, "ok",
                        {p \in profiles : CanSelectProfile(uid, p)})
    /\ UNCHANGED <<tables, now>>

InsertProfile(uid, txnow, input) ==
    LET row == [input EXCEPT !.updated_at = Default(@, txnow)]
        status == Outcome(~CanInsertProfile(uid, row),
                          ~ProfileConstraints(row, profiles))
        stored == [row EXCEPT !.username = @[1]]
    IN  /\ result.op = "idle"
        /\ profiles' = IF status = "ok" THEN profiles \cup {stored}
                       ELSE profiles
        /\ result' = Result("InsertProfile", uid, input, status,
                            IF status = "ok" THEN {stored} ELSE {})
        /\ UNCHANGED <<auth_users, teams, team_members, tasks, now>>

\* UPDATE profiles SET username = .., updated_at = .. WHERE user_id = ..
UpdateProfile(uid, txnow, user_id, set) ==
    LET hit == {p \in profiles :
                    p.user_id = user_id /\ CanSeeToUpdateProfile(uid, p)}
        New(old) == update_updated_at_column(
                        [old EXCEPT !.username = set.username,
                                    !.updated_at = Default(set.updated_at, @)],
                        txnow)
        Nullable(p) == [p EXCEPT !.username = Some(@)]
        status == Outcome(hit = {} \/ \E p \in hit : ~CanWriteProfile(uid, New(p)),
                          \E p \in hit : ~ProfileConstraints(Nullable(New(p)),
                                                              profiles \ {p}))
    IN  /\ result.op = "idle"
        /\ profiles' = IF status = "ok"
                       THEN (profiles \ hit) \cup {New(p) : p \in hit}
                       ELSE profiles
        /\ result' = Result("UpdateProfile", uid, user_id, status,
                            IF status = "ok" THEN {New(p) : p \in hit} ELSE {})
        /\ UNCHANGED <<auth_users, teams, team_members, tasks, now>>

(***************************************************************************)
(* Statements on public.teams                                              *)
(***************************************************************************)
SelectTeams(uid) ==
    /\ result.op = "idle"
    /\ result' = Result("SelectTeams", uid, NULL, "ok",
                        {t \in teams : CanSelectTeam(uid, t)})
    /\ UNCHANGED <<tables, now>>

\* INSERT INTO teams ... RETURNING *, as CreateTeam issues it.
InsertTeam(uid, txnow, input) ==
    LET row == [input EXCEPT !.updated_at = Default(@, txnow)]
        status == Outcome(~CanInsertTeam(uid, row),
                          ~TeamConstraints(row, teams))
    IN  /\ result.op = "idle"
        /\ teams' = IF status = "ok" THEN teams \cup {row} ELSE teams
        /\ result' = Result("InsertTeam", uid, input, status,
                            IF status = "ok" THEN {row} ELSE {})
        /\ UNCHANGED <<auth_users, profiles, team_members, tasks, now>>

\* UPDATE teams SET owner_id = .., updated_at = .. WHERE id = ..
UpdateTeam(uid, txnow, id, set) ==
    LET hit == {t \in teams : t.id = id /\ CanSeeToUpdateTeam(uid, t)}
        New(old) == update_updated_at_column(
                        [old EXCEPT !.owner_id = set.owner_id,
                                    !.updated_at = Default(set.updated_at, @)],
                        txnow)
        status == Outcome(hit = {} \/ \E t \in hit : ~CanWriteTeam(uid, New(t)),
                          \E t \in hit : ~TeamConstraints(New(t), teams \ {t}))
    IN  /\ result.op = "idle"
        /\ teams' = IF status = "ok"
                    THEN (teams \ hit) \cup {New(t) : t \in hit}
                    ELSE teams
        /\ result' = Result("UpdateTeam", uid, id, status,
                            IF status = "ok" THEN {New(t) : t \in hit} ELSE {})
        /\ UNCHANGED <<auth_users, profiles, team_members, tasks, now>>

\* Mutant: the foreign keys do not cascade.
DeleteTeam_NoCascade(uid, id) ==
    LET hit == {t \in teams : t.id = id /\ CanDeleteTeam(uid, t)}
    IN  /\ result.op = "idle"
        /\ teams' = teams \ hit
        /\ result' = Result("DeleteTeam", uid, id,
                            IF hit = {} THEN "denied" ELSE "ok", hit)
        /\ UNCHANGED <<auth_users, profiles, team_members, tasks, now>>

\* DELETE FROM teams WHERE id = ..; team_members.team_id and tasks.team_id
\* are REFERENCES teams(id) ON DELETE CASCADE.
DeleteTeam(uid, id) ==
    LET hit == {t \in teams : t.id = id /\ CanDeleteTeam(uid, t)}
        gone == {t.id : t \in hit}
    IN  /\ result.op = "idle"
        /\ teams' = teams \ hit
        /\ team_members' = {m \in team_members : m.team_id \notin gone}
        /\ tasks' = {k \in tasks : k.team_id \notin gone}
        /\ result' = Result("DeleteTeam", uid, id,
                            IF hit = {} THEN "denied" ELSE "ok", hit)
        /\ UNCHANGED <<auth_users, profiles, now>>

(***************************************************************************)
(* Statements on public.team_members                                       *)
(***************************************************************************)
SelectMembers(uid) ==
    /\ result.op = "idle"
    /\ result' = Result("SelectMembers", uid, NULL, "ok",
                        {m \in team_members : CanSelectMember(uid, m)})
    /\ UNCHANGED <<tables, now>>

\* INSERT INTO team_members (team_id, user_id, role, invited_by).
InsertMember(uid, input) ==
    LET row == [team_id |-> input.team_id, user_id |-> input.user_id,
                role |-> Default(input.role, "member")]
        status == Outcome(~CanInsertMember(uid, row),
                          \/ ~MemberConstraints(row, team_members)
                          \/ /\ input.invited_by # Omitted
                             /\ input.invited_by[1] \notin auth_users)
    IN  /\ result.op = "idle"
        /\ team_members' = IF status = "ok" THEN team_members \cup {row}
                           ELSE team_members
        /\ result' = Result("InsertMember", uid, input, status,
                            IF status = "ok" THEN {row} ELSE {})
        /\ UNCHANGED <<auth_users, profiles, teams, tasks, now>>

\* UPDATE team_members SET team_id = .., user_id = .., role = ..
\* WHERE team_id = .. AND user_id = ..
UpdateMember(uid, old, set) ==
    LET hit == {m \in team_members : m = old /\ CanSeeToUpdateMember(uid, m)}
        New(m) == [m EXCEPT !.team_id = set.team_id, !.user_id = set.user_id,
                            !.role = set.role]
        status == Outcome(hit = {} \/ \E m \in hit : ~CanWriteMember(uid, New(m)),
                          \E m \in hit :
                              ~MemberConstraints(New(m), team_members \ {m}))
    IN  /\ result.op = "idle"
        /\ team_members' = IF status = "ok"
                           THEN (team_members \ hit) \cup {New(m) : m \in hit}
                           ELSE team_members
        /\ result' = Result("UpdateMember", uid, old, status,
                            IF status = "ok" THEN {New(m) : m \in hit} ELSE {})
        /\ UNCHANGED <<auth_users, profiles, teams, tasks, now>>

\* DELETE FROM team_members WHERE team_id = .. AND user_id = ..
DeleteMember(uid, old) ==
    LET hit == {m \in team_members : m = old /\ CanDeleteMember(uid, m)}
    IN  /\ result.op = "idle"
        /\ team_members' = team_members \ hit
        /\ result' = Result("DeleteMember", uid, old,
                            IF hit = {} THEN "denied" ELSE "ok", hit)
        /\ UNCHANGED <<auth_users, profiles, teams, tasks, now>>

(***************************************************************************)
(* Statements on public.tasks                                              *)
(***************************************************************************)
SelectTasks(uid) ==
    /\ result.op = "idle"
    /\ result' = Result("SelectTasks", uid, NULL, "ok",
                        {k \in tasks : CanSelectTask(uid, k)})
    /\ UNCHANGED <<tables, now>>

InsertTask(uid, txnow, input) ==
    LET row == [input EXCEPT !.updated_at = Default(@, txnow)]
        status == Outcome(~CanInsertTask(uid, row),
                          ~TaskConstraints(row, tasks))
    IN  /\ result.op = "idle"
        /\ tasks' = IF status = "ok" THEN tasks \cup {row} ELSE tasks
        /\ result' = Result("InsertTask", uid, input, status,
                            IF status = "ok" THEN {row} ELSE {})
        /\ UNCHANGED <<auth_users, profiles, teams, team_members, now>>

\* UPDATE tasks SET team_id = .., created_by = .., updated_at = ..
\* WHERE id = ..
UpdateTask(uid, txnow, id, set) ==
    LET hit == {k \in tasks : k.id = id /\ CanSeeToUpdateTask(uid, k)}
        New(old) == update_updated_at_column(
                        [old EXCEPT !.team_id = set.team_id,
                                    !.created_by = set.created_by,
                                    !.updated_at = Default(set.updated_at, @)],
                        txnow)
        status == Outcome(hit = {} \/ \E k \in hit : ~CanWriteTask(uid, New(k)),
                          \E k \in hit : ~TaskConstraints(New(k), tasks \ {k}))
    IN  /\ result.op = "idle"
        /\ tasks' = IF status = "ok"
                    THEN (tasks \ hit) \cup {New(k) : k \in hit}
                    ELSE tasks
        /\ result' = Result("UpdateTask", uid, id, status,
                            IF status = "ok" THEN {New(k) : k \in hit} ELSE {})
        /\ UNCHANGED <<auth_users, profiles, teams, team_members, now>>

\* DELETE FROM tasks WHERE id = ..
DeleteTask(uid, id) ==
    LET hit == {k \in tasks : k.id = id /\ CanDeleteTask(uid, k)}
    IN  /\ result.op = "idle"
        /\ tasks' = tasks \ hit
        /\ result' = Result("DeleteTask", uid, id,
                            IF hit = {} THEN "denied" ELSE "ok", hit)
        /\ UNCHANGED <<auth_users, profiles, teams, team_members, now>>

(***************************************************************************)
(* What the clients send                                                   *)
(***************************************************************************)
Handle(u) == CASE u = "A" -> <<"a">> [] u = "B" -> <<"b">> [] OTHER -> <<"c">>

Texts == {<<>>, <<"a">>, <<"x">>}
Emails == {Omitted, Some(<<"a", "@", "x">>), Some(<<"b", "@", "x">>),
           Some(<<"a", "@", "b">>)}
MetaUsernames == {Omitted} \cup {Some(s) : s \in Texts}
Stamps(times) == {Omitted} \cup {Some(t) : t \in times}

ProfileInputs(stamps) ==
    [user_id : Users, username : MetaUsernames, updated_at : stamps]
ProfileSets(texts, stamps) == [username : texts, updated_at : stamps]

TeamInputs(ids, stamps) == [id : ids, owner_id : Users, updated_at : stamps]
TeamSets(stamps) == [owner_id : Users, updated_at : stamps]

MemberInputs ==
    [team_id : TeamIds, user_id : Users, role : {Omitted},
     invited_by : {Omitted}]
MemberSets == [team_id : TeamIds, user_id : Users, role : {"member"}]

TaskInputs(ids, stamps) ==
    [id : TaskIds, team_id : ids, created_by : Users, updated_at : stamps]
TaskSets(ids, stamps) ==
    [team_id : ids, created_by : Users, updated_at : stamps]

(***************************************************************************)
(* Spec: row-level security of teams, members and tasks.  Three accounts   *)
(* have signed up; the clock stands still.                                 *)
(***************************************************************************)
Init ==
    /\ auth_users = Users
    /\ profiles = {[user_id |-> u, username |-> Handle(u), updated_at |-> 0]
                     : u \in Users}
    /\ teams = {}
    /\ team_members = {}
    /\ tasks = {}
    /\ now = 0
    /\ result = Idle
    /\ dashboard = Unmounted
    /\ create_team = NotSubmitted

\* Profile statements: an insert of a second profile, and an update that
\* writes the profile's own handle back.
DoSelectProfiles ==
    \E uid \in auth_users :
        SelectProfiles(uid) /\ UNCHANGED client
DoInsertProfile ==
    \E uid \in auth_users,
       input \in [user_id : Users, username : {Some(<<"x">>)},
                  updated_at : {Omitted}] :
        InsertProfile(uid, now, input) /\ UNCHANGED client
DoUpdateProfile ==
    \E uid \in auth_users, user_id \in auth_users :
        \E set \in ProfileSets({Handle(user_id)}, {Omitted}) :
            UpdateProfile(uid, now, user_id, set) /\ UNCHANGED client
DoSelectTeams == \E uid \in auth_users : SelectTeams(uid) /\ UNCHANGED client
DoInsertTeam ==
    \E uid \in Founders, input \in TeamInputs(TeamIds, {Omitted}) :
        InsertTeam(uid, now, input) /\ UNCHANGED client
DoUpdateTeam ==
    \E uid \in auth_users, t \in teams, set \in TeamSets({Omitted}) :
        UpdateTeam(uid, now, t.id, set) /\ UNCHANGED client
DoDeleteTeam ==
    \E uid \in auth_users, t \in teams :
        DeleteTeam(uid, t.id) /\ UNCHANGED client
DoSelectMembers ==
    \E uid \in auth_users :
        SelectMembers(uid) /\ UNCHANGED client
DoInsertMember ==
    \E uid \in auth_users, input \in MemberInputs :
        InsertMember(uid, input) /\ UNCHANGED client
DoUpdateMember ==
    \E uid \in auth_users, m \in team_members, set \in MemberSets :
        UpdateMember(uid, m, set) /\ UNCHANGED client
DoDeleteMember ==
    \E uid \in auth_users, m \in team_members :
        DeleteMember(uid, m) /\ UNCHANGED client
DoSelectTasks == \E uid \in auth_users : SelectTasks(uid) /\ UNCHANGED client
DoInsertTask ==
    \E uid \in auth_users, input \in TaskInputs(TeamIds, {Omitted}) :
        InsertTask(uid, now, input) /\ UNCHANGED client
DoUpdateTask ==
    \E uid \in auth_users, k \in tasks, set \in TaskSets(TeamIds, {Omitted}) :
        UpdateTask(uid, now, k.id, set) /\ UNCHANGED client
DoDeleteTask ==
    \E uid \in auth_users, k \in tasks :
        DeleteTask(uid, k.id) /\ UNCHANGED client

Next ==
    \/ DoSelectProfiles
    \/ DoInsertProfile
    \/ DoUpdateProfile
    \/ DoSelectTeams
    \/ DoInsertTeam
    \/ DoUpdateTeam
    \/ DoDeleteTeam
    \/ DoSelectMembers
    \/ DoInsertMember
    \/ DoUpdateMember
    \/ DoDeleteMember
    \/ DoSelectTasks
    \/ DoInsertTask
    \/ DoUpdateTask
    \/ DoDeleteTask
    \/ Return

Spec == Init /\ [][Next]_vars

(***************************************************************************)
(* SpecClock: the updated_at columns under a running clock.  One founder,  *)
(* one team, one task; callers may supply updated_at themselves, and a     *)
(* statement runs in a transaction that began at txnow <= now.             *)
(***************************************************************************)
ClockUsers == {"A"}
ClockTeams == {1}

ClkInsertTeam ==
    \E uid \in ClockUsers, txnow \in 0..now,
       input \in TeamInputs(ClockTeams, Stamps(Times)) :
        InsertTeam(uid, txnow, input) /\ UNCHANGED client
ClkUpdateTeam ==
    \E uid \in ClockUsers, txnow \in 0..now, t \in teams,
       set \in TeamSets(Stamps(Times)) :
        UpdateTeam(uid, txnow, t.id, set) /\ UNCHANGED client
ClkInsertMember ==
    \E uid \in ClockUsers :
        InsertMember(uid, [team_id |-> 1, user_id |-> uid, role |-> Omitted,
                           invited_by |-> Omitted]) /\ UNCHANGED client
ClkInsertTask ==
    \E uid \in ClockUsers, txnow \in 0..now,
       input \in TaskInputs(ClockTeams, Stamps(Times)) :
        InsertTask(uid, txnow, input) /\ UNCHANGED client
ClkUpdateTask ==
    \E uid \in ClockUsers, txnow \in 0..now, k \in tasks,
       set \in TaskSets(ClockTeams, Stamps(Times)) :
        UpdateTask(uid, txnow, k.id, set) /\ UNCHANGED client
ClkUpdateProfile ==
    \E uid \in ClockUsers, txnow \in 0..now :
        \E set \in ProfileSets({Handle(uid)}, Stamps(Times)) :
            UpdateProfile(uid, txnow, uid, set) /\ UNCHANGED client

NextClock ==
    \/ Tick
    \/ ClkInsertTeam
    \/ ClkUpdateTeam
    \/ ClkInsertMember
    \/ ClkInsertTask
    \/ ClkUpdateTask
    \/ ClkUpdateProfile
    \/ Return

SpecClock == Init /\ [][NextClock]_vars

(***************************************************************************)
(* SpecSignup: accounts and their profiles, from an empty database.        *)
(***************************************************************************)
InitSignup ==
    /\ auth_users = {}
    /\ profiles = {}
    /\ teams = {}
    /\ team_members = {}
    /\ tasks = {}
    /\ now = 0
    /\ result = Idle
    /\ dashboard = Unmounted
    /\ create_team = NotSubmitted

SgnCreateAccount ==
    \E id \in Users, email \in Emails, meta_username \in MetaUsernames :
        CreateAccount(id, email, meta_username, now) /\ UNCHANGED client
SgnSelectProfiles ==
    \E uid \in auth_users :
        SelectProfiles(uid) /\ UNCHANGED client
SgnInsertProfile ==
    \E uid \in auth_users, input \in ProfileInputs({Omitted}) :
        InsertProfile(uid, now, input) /\ UNCHANGED client
SgnUpdateProfile ==
    \E uid \in auth_users, user_id \in auth_users,
       set \in ProfileSets(Texts, {Omitted}) :
        UpdateProfile(uid, now, user_id, set) /\ UNCHANGED client

NextSignup ==
    \/ SgnCreateAccount
    \/ SgnSelectProfiles
    \/ SgnInsertProfile
    \/ SgnUpdateProfile
    \/ Return

SpecSignup == InitSignup /\ [][NextSignup]_vars

(***************************************************************************)
(* SpecDashboard: the Dashboard page of user A beside the statements of A  *)
(* and B on team 1.  The page calls fetchTeams when it mounts and, 100 ms  *)
(* after each change event on teams, team_members or tasks, calls it       *)
(* again.  A fetchTeams call is one request for the teams, then for each   *)
(* team a request for its member count and one for its task count, then    *)
(* setTeams; calls overlap freely.  Requests that fail in transport are    *)
(* left out.                                                               *)
(***************************************************************************)
MaxFetches == 2
MaxEvents == 3
MaxTimers == 2

DashUser == "A"
DashWriters == {"A", "B"}
DashTeam == 1
Fetches == 1..MaxFetches

\* from('teams').select('*, team_members!inner(user_id)')
\*   .or('owner_id.eq.<uid>,team_members.user_id.eq.<uid>')
\* The inner join keeps a team only with a team_members row the caller may
\* read; the filter keeps the joined rows of an owner or of the caller.
TeamsQuery(uid) ==
    {t \in teams :
        /\ CanSelectTeam(uid, t)
        /\ \E m \in team_members :
              /\ m.team_id = t.id
              /\ CanSelectMember(uid, m)
              /\ (t.owner_id = uid \/ m.user_id = uid)}

\* from('team_members').select('*', {count: 'exact', head: true})
\*   .eq('team_id', id), and the same on tasks; `count || 0`.
MemberCount(uid, id) ==
    Cardinality({m \in team_members :
                    m.team_id = id /\ CanSelectMember(uid, m)})
TaskCount(uid, id) ==
    Cardinality({k \in tasks : k.team_id = id /\ CanSelectTask(uid, k)})

\* The tables of the subscription that a statement changed: one change
\* event each.
ChangedTables ==
    (IF teams' # teams THEN 1 ELSE 0)
    + (IF team_members' # team_members THEN 1 ELSE 0)
    + (IF tasks' # tasks THEN 1 ELSE 0)

\* The realtime channel takes the change events of a committed statement.
Publish ==
    /\ dashboard.events + ChangedTables <= MaxEvents
    /\ dashboard' = [dashboard EXCEPT !.events = @ + ChangedTables]
    /\ UNCHANGED create_team

\* The callback of .on('postgres_changes', ...): setTimeout(fetchTeams, 100).
OnChange ==
    /\ result.op = "idle"
    /\ dashboard.events > 0
    /\ dashboard.timers < MaxTimers
    /\ dashboard' = [dashboard EXCEPT !.events = @ - 1, !.timers = @ + 1]
    /\ UNCHANGED <<tables, now, result, create_team>>

\* A timer expires and calls fetchTeams, which sends the teams request.
TimerFires ==
    /\ result.op = "idle"
    /\ dashboard.timers > 0
    /\ \E i \in Fetches :
          /\ dashboard.fetches[i].pc = "free"
          /\ \A j \in Fetches : j < i => dashboard.fetches[j].pc # "free"
          /\ dashboard' = [dashboard EXCEPT
                             !.timers = @ - 1,
                             !.fetches[i] = [pc |-> "teams", rows |-> {}]]
    /\ UNCHANGED <<tables, now, result, create_team>>

\* fetchTeams, the teams request: teamsData, each team awaiting its counts.
FetchTeamsQuery(i) ==
    /\ result.op = "idle"
    /\ dashboard.fetches[i].pc = "teams"
    /\ dashboard' = [dashboard EXCEPT !.fetches[i] =
          [pc |-> "counts",
           rows |-> {[id |-> t.id, member_count |-> Omitted,
                      task_count |-> Omitted] : t \in TeamsQuery(DashUser)}]]
    /\ UNCHANGED <<tables, now, result, create_team>>

\* fetchTeams, the member count request of one team.
FetchMemberCount(i, id) ==
    /\ result.op = "idle"
    /\ dashboard.fetches[i].pc = "counts"
    /\ \E r \in dashboard.fetches[i].rows :
          /\ r.id = id
          /\ r.member_count = Omitted
          /\ dashboard' = [dashboard EXCEPT !.fetches[i].rows =
                (@ \ {r}) \cup
                {[r EXCEPT !.member_count = Some(MemberCount(DashUser, id))]}]
    /\ UNCHANGED <<tables, now, result, create_team>>

\* fetchTeams, the task count request of one team, sent once its member
\* count has arrived.
FetchTaskCount(i, id) ==
    /\ result.op = "idle"
    /\ dashboard.fetches[i].pc = "counts"
    /\ \E r \in dashboard.fetches[i].rows :
          /\ r.id = id
          /\ r.member_count # Omitted
          /\ r.task_count = Omitted
          /\ dashboard' = [dashboard EXCEPT !.fetches[i].rows =
                (@ \ {r}) \cup
                {[r EXCEPT !.task_count = Some(TaskCount(DashUser, id))]}]
    /\ UNCHANGED <<tables, now, result, create_team>>

\* fetchTeams, after Promise.all: setTeams(teamsWithCounts).
SetTeams(i) ==
    /\ result.op = "idle"
    /\ dashboard.fetches[i].pc = "counts"
    /\ \A r \in dashboard.fetches[i].rows : r.task_count # Omitted
    /\ dashboard' = [dashboard EXCEPT
          !.teams = {[id |-> r.id, member_count |-> r.member_count[1],
                      task_count |-> r.task_count[1]]
                       : r \in dashboard.fetches[i].rows},
          !.fetches[i] = FreeFetch]
    /\ UNCHANGED <<tables, now, result, create_team>>

\* useEffect on mount: fetchTeams(); setupRealtimeSubscription().
Mounted ==
    [events |-> 0, timers |-> 0,
     fetches |-> [i \in Fetches |->
                    IF i = 1 THEN [pc |-> "teams", rows |-> {}]
                    ELSE FreeFetch],
     teams |-> {}]

\* B has founded team 2 and is its only member; A has no team yet.
InitDashboard ==
    /\ auth_users = Users
    /\ profiles = {[user_id |-> u, username |-> Handle(u), updated_at |-> 0]
                     : u \in Users}
    /\ teams = {[id |-> 2, owner_id |-> "B", updated_at |-> 0]}
    /\ team_members = {[team_id |-> 2, user_id |-> "B", role |-> "owner"]}
    /\ tasks = {}
    /\ now = 0
    /\ result = Idle
    /\ dashboard = Mounted
    /\ create_team = NotSubmitted

\* The statements on team 1 while the page is open: A founds and deletes
\* it, A and B join it, A removes members and adds tasks.  Each changes
\* only rows that A may read, so A's channel carries its events.
DshInsertTeam ==
    /\ InsertTeam(DashUser, now, [id |-> DashTeam, owner_id |-> DashUser,
                                  updated_at |-> Omitted])
    /\ Publish
DshDeleteTeam == DeleteTeam(DashUser, DashTeam) /\ Publish
DshInsertMember ==
    \E uid \in DashWriters :
        /\ InsertMember(uid, [team_id |-> DashTeam, user_id |-> uid,
                              role |-> Omitted, invited_by |-> Omitted])
        /\ Publish
DshDeleteMember ==
    \E m \in team_members :
        m.team_id = DashTeam /\ DeleteMember(DashUser, m) /\ Publish
DshInsertTask ==
    \E id \in TaskIds :
        /\ InsertTask(DashUser, now,
                      [id |-> id, team_id |-> DashTeam,
                       created_by |-> DashUser, updated_at |-> Omitted])
        /\ Publish
DshFetchTeamsQuery == \E i \in Fetches : FetchTeamsQuery(i)
DshFetchMemberCount == \E i \in Fetches, id \in TeamIds : FetchMemberCount(i, id)
DshFetchTaskCount == \E i \in Fetches, id \in TeamIds : FetchTaskCount(i, id)
DshSetTeams == \E i \in Fetches : SetTeams(i)

NextDashboard ==
    \/ DshInsertTeam
    \/ DshDeleteTeam
    \/ DshInsertMember
    \/ DshDeleteMember
    \/ DshInsertTask
    \/ Return
    \/ OnChange
    \/ TimerFires
    \/ DshFetchTeamsQuery
    \/ DshFetchMemberCount
    \/ DshFetchTaskCount
    \/ DshSetTeams

SpecDashboard == InitDashboard /\ [][NextDashboard]_vars

(***************************************************************************)
(* SpecCreateTeam: the CreateTeam page of user A beside the statements of  *)
(* B.  handleSubmit sends the team's insert, awaits it, sends the owner's  *)
(* membership insert, awaits it and reports; either request may fail in    *)
(* transport, in which case the gateway runs nothing and the client gets   *)
(* an error.  A writes only through the page.                              *)
(***************************************************************************)
CtUser == "A"
CtOthers == {"B"}

\* toast(...) and the end of handleSubmit.
Report(toast) == [create_team EXCEPT !.pc = "idle", !.toast = toast]

\* handleSubmit up to the first await: a blank name is refused, otherwise
\* the insert into teams is sent.
CtSubmit(name_blank) ==
    /\ result.op = "idle"
    /\ create_team.pc = "idle"
    /\ create_team' =
          IF name_blank
          THEN [pc |-> "idle", teamData |-> Omitted, toast |-> "validation"]
          ELSE [pc |-> "team", teamData |-> Omitted, toast |-> "none"]
    /\ UNCHANGED <<tables, now, result, dashboard>>

\* from('teams').insert([{name, description, owner_id: user.id}])
\*   .select().single(): the database draws the id.  On teamError the
\* handler throws; otherwise it sends the insert into team_members.
CtInsertTeam ==
    /\ create_team.pc = "team"
    /\ \E id \in TeamIds \ TeamRowIds :
          InsertTeam(CtUser, now, [id |-> id, owner_id |-> CtUser,
                                   updated_at |-> Omitted])
    /\ create_team' =
          IF result'.status = "ok"
          THEN [create_team EXCEPT
                  !.pc = "member",
                  !.teamData = Some((CHOOSE t \in result'.rows : TRUE).id)]
          ELSE Report("error")
    /\ UNCHANGED dashboard

\* The team request fails before the gateway runs it.
CtInsertTeamFails ==
    /\ result.op = "idle"
    /\ create_team.pc = "team"
    /\ create_team' = Report("error")
    /\ UNCHANGED <<tables, now, result, dashboard>>

\* from('team_members').insert([{team_id: teamData.id, user_id: user.id,
\*   role: 'owner'}]): on memberError the handler throws, otherwise it
\* reports success and navigates to the team.
CtInsertMember ==
    /\ create_team.pc = "member"
    /\ InsertMember(CtUser, [team_id |-> create_team.teamData[1],
                             user_id |-> CtUser, role |-> Some("owner"),
                             invited_by |-> Omitted])
    /\ create_team' =
          Report(IF result'.status = "ok" THEN "success" ELSE "error")
    /\ UNCHANGED dashboard

\* The membership request fails before the gateway runs it: catch, toast,
\* and nothing is sent to undo the team.
CtInsertMemberFails_Rollback ==
    /\ result.op = "idle"
    /\ create_team.pc = "member"
    /\ create_team' = Report("error")
    /\ teams' = {t \in teams : t.id # create_team.teamData[1]}
    /\ UNCHANGED <<auth_users, profiles, team_members, tasks, now, result,
                   dashboard>>
CtInsertMemberFails ==
    /\ result.op = "idle"
    /\ create_team.pc = "member"
    /\ create_team' = Report("error")
    /\ UNCHANGED <<tables, now, result, dashboard>>

\* B joins and leaves teams and adds tasks meanwhile.
CtOtherJoins ==
    \E uid \in CtOthers, team_id \in TeamIds :
        /\ InsertMember(uid, [team_id |-> team_id, user_id |-> uid,
                              role |-> Omitted, invited_by |-> Omitted])
        /\ UNCHANGED client
CtOtherLeaves ==
    \E uid \in CtOthers, m \in team_members :
        DeleteMember(uid, m) /\ UNCHANGED client
CtOtherInsertsTask ==
    \E uid \in CtOthers, id \in TaskIds, team_id \in TeamIds :
        /\ InsertTask(uid, now, [id |-> id, team_id |-> team_id,
                                 created_by |-> uid, updated_at |-> Omitted])
        /\ UNCHANGED client
CtOtherDeletesTeam ==
    \E uid \in CtOthers, t \in teams : DeleteTeam(uid, t.id) /\ UNCHANGED client

CtHandleSubmit == \E name_blank \in BOOLEAN : CtSubmit(name_blank)

NextCreateTeam ==
    \/ CtHandleSubmit
    \/ CtInsertTeam
    \/ CtInsertTeamFails
    \/ CtInsertMember
    \/ CtInsertMemberFails
    \/ CtOtherJoins
    \/ CtOtherLeaves
    \/ CtOtherInsertsTask
    \/ CtOtherDeletesTeam
    \/ Return

SpecCreateTeam == Init /\ [][NextCreateTeam]_vars

(***************************************************************************)
(* Properties.  Membership and ownership as the specification defines      *)
(* them: a Membership row exists; the team's owner reference is the user.  *)
(***************************************************************************)
HasMembership(u, team_id) ==
    \E m \in team_members : m.team_id = team_id /\ m.user_id = u
Owns(u, team_id) ==
    \E t \in teams : t.id = team_id /\ t.owner_id = u

\* C1: the owner of every team passes is_owner and passes, as a member
\* would, the select policies of teams, team_members and tasks and the
\* insert and update policies of tasks, with or without a Membership row.
C1_OwnerPassesEveryPolicy ==
    \A t \in teams :
        LET o == t.owner_id
            own == [id |-> 1, team_id |-> t.id, created_by |-> o,
                    updated_at |-> now]
        IN  /\ is_team_owner(o, t.id)
            /\ CanSelectTeam(o, t)
            /\ \A m \in team_members : m.team_id = t.id => CanSelectMember(o, m)
            /\ CanInsertTask(o, own)
            /\ \A k \in tasks : k.team_id = t.id =>
                    /\ CanSelectTask(o, k)
                    /\ CanSeeToUpdateTask(o, k) /\ CanWriteTask(o, k)

\* C2: a statement adds a Membership row (team, user) only when its actor is
\* user or owns team; an INSERT naming another user, by an actor who does
\* not own the team, is denied and leaves team_members as it was.
C2_MembershipWrittenByUserOrOwner ==
    [][/\ \A m \in team_members' \ team_members :
              result'.uid = m.user_id \/ Owns(result'.uid, m.team_id)
       /\ (/\ result'.op = "InsertMember"
           /\ result'.arg.user_id # result'.uid
           /\ ~Owns(result'.uid, result'.arg.team_id))
          => /\ result'.status = "denied"
             /\ team_members' = team_members]_vars

\* C2 witness: an actor who does not own an existing team has just been
\* denied the insert of another user's membership in it.
C2_Witness ==
    /\ result.op = "InsertMember"
    /\ result.status = "denied"
    /\ result.arg.team_id \in TeamRowIds
    /\ result.arg.user_id # result.uid
    /\ ~HasMembership(result.arg.user_id, result.arg.team_id)

\* C3: an actor who does not own the team has their own Membership row
\* accepted only when invited, that is when the row names the team's owner
\* as its inviter.
C3_SelfJoinOnlyWhenInvited ==
    [][(/\ result'.op = "InsertMember"
        /\ result'.status = "ok"
        /\ result'.arg.user_id = result'.uid
        /\ ~Owns(result'.uid, result'.arg.team_id))
       => /\ result'.arg.invited_by # Omitted
          /\ Owns(result'.arg.invited_by[1], result'.arg.team_id)]_vars

\* C4: a select on tasks succeeds and returns exactly the tasks of the teams
\* in which the actor has a Membership row at the time of the read.
C4_SelectTasksReturnsMembersTasks ==
    [][result'.op = "SelectTasks"
       => /\ result'.status = "ok"
          /\ result'.rows =
                 {k \in tasks : HasMembership(result'.uid, k.team_id)}]_vars

\* C4 witness: an actor who owns none of the teams concerned has just read
\* tasks, while another team's membership is not theirs.
C4_Witness ==
    /\ result.op = "SelectTasks"
    /\ result.rows # {}
    /\ \A k \in result.rows : ~Owns(result.uid, k.team_id)
    /\ \E t \in teams : ~HasMembership(result.uid, t.id)

\* C5: a task is inserted only by a member of its team who is its
\* created_by, and the created_by of a task stays the actor that inserted
\* it.
C5_CreatorIsInsertingMember ==
    [][\A k \in tasks' :
          IF \E o \in tasks : o.id = k.id
          THEN \A o \in tasks : o.id = k.id => o.created_by = k.created_by
          ELSE /\ k.created_by = result'.uid
               /\ HasMembership(result'.uid, k.team_id)]_vars

\* C6: a delete of a task removes it if and only if the actor owns the
\* task's team; otherwise the tasks stay as they were.
C6_DeleteTaskIffOwner ==
    [][result'.op = "DeleteTask"
       => \A k \in tasks : k.id = result'.arg =>
             /\ (k \notin tasks') <=> Owns(result'.uid, k.team_id)
             /\ ~Owns(result'.uid, k.team_id) => tasks' = tasks]_vars

\* C7: every Membership row and every Task row references an existing Team,
\* and right after a team is deleted no row references it.
C7_NoRowWithoutItsTeam ==
    /\ \A m \in team_members : m.team_id \in {t.id : t \in teams}
    /\ \A k \in tasks : k.team_id \in {t.id : t \in teams}
    /\ (result.op = "DeleteTeam" /\ result.status = "ok")
       => \A t \in result.rows :
             /\ \A m \in team_members : m.team_id # t.id
             /\ \A k \in tasks : k.team_id # t.id

\* C7 witness: a team has just been deleted while the other team keeps its
\* members and its task.
C7_Witness ==
    /\ result.op = "DeleteTeam"
    /\ result.status = "ok"
    /\ team_members # {}
    /\ tasks # {}

\* C8: no statement lowers the updated_at of a Profile, Team or Task row.
C8_UpdatedAtNeverDecreases ==
    [][/\ \A p \in profiles, q \in profiles' :
              q.user_id = p.user_id => q.updated_at >= p.updated_at
       /\ \A t \in teams, u \in teams' :
              u.id = t.id => u.updated_at >= t.updated_at
       /\ \A k \in tasks, l \in tasks' :
              l.id = k.id => l.updated_at >= k.updated_at]_vars

\* C9: a sign-up that succeeds leaves exactly one Profile row for the new
\* account, with a handle that is not empty and that no other profile has;
\* a sign-up whose profile insert fails reports the failure and creates no
\* account; no account is without a profile.
C9_NewAccountHasOneNamedProfile ==
    [][result'.op = "CreateAccount"
       => /\ IF result'.status = "ok"
             THEN /\ result'.uid \in auth_users'
                  /\ \E p \in profiles' :
                        /\ p.user_id = result'.uid
                        /\ p.username # <<>>
                        /\ \A q \in profiles' :
                              (q.user_id = p.user_id \/ q.username = p.username)
                              => q = p
             ELSE /\ result'.uid \notin auth_users'
                  /\ tables' = tables
          /\ \A u \in auth_users' : \E p \in profiles' : p.user_id = u]_vars

\* The policy predicate of a statement, as the specification's policy table
\* gives it, in the state the statement runs in.
PolicyAdmits(r) ==
    CASE r.op = "InsertProfile" -> r.uid = r.arg.user_id
      [] r.op = "UpdateProfile" -> r.uid = r.arg
      [] r.op = "InsertTeam" -> r.uid = r.arg.owner_id
      [] r.op \in {"UpdateTeam", "DeleteTeam"} -> Owns(r.uid, r.arg)
      [] r.op = "InsertMember" ->
            r.uid = r.arg.user_id \/ Owns(r.uid, r.arg.team_id)
      [] r.op \in {"UpdateMember", "DeleteMember"} ->
            Owns(r.uid, r.arg.team_id)
      [] r.op = "InsertTask" ->
            HasMembership(r.uid, r.arg.team_id) /\ r.uid = r.arg.created_by
      [] r.op = "UpdateTask" ->
            \E k \in tasks : k.id = r.arg /\ HasMembership(r.uid, k.team_id)
      [] r.op = "DeleteTask" ->
            \E k \in tasks : k.id = r.arg /\ Owns(r.uid, k.team_id)
      [] OTHER -> TRUE

\* C10: a statement whose policy predicate is false is denied, leaves the
\* tables as they were and returns no row; a denied statement changes
\* nothing; a select returns no row its policy predicate rejects.
C10_DeniedLeavesNoTrace ==
    [][result'.op # "idle"
       => /\ ~PolicyAdmits(result')
             => /\ result'.status = "denied"
                /\ result'.rows = {}
                /\ tables' = tables
          /\ result'.status = "denied" => tables' = tables /\ result'.rows = {}
          /\ result'.op = "SelectProfiles" =>
                \A p \in result'.rows : p.user_id = result'.uid
          /\ result'.op = "SelectTeams" =>
                \A t \in result'.rows :
                    t.owner_id = result'.uid \/ HasMembership(result'.uid, t.id)
          /\ result'.op = "SelectMembers" =>
                \A m \in result'.rows :
                    \/ HasMembership(result'.uid, m.team_id)
                    \/ Owns(result'.uid, m.team_id)
          /\ result'.op = "SelectTasks" =>
                \A k \in result'.rows : HasMembership(result'.uid, k.team_id)
      ]_vars

\* C10 witness: a member who does not own the team has just been denied the
\* delete of one of its tasks, and the task is still there.
C10_Witness ==
    /\ result.op = "DeleteTask"
    /\ result.status = "denied"
    /\ \E k \in tasks :
          /\ k.id = result.arg
          /\ HasMembership(result.uid, k.team_id)
          /\ ~Owns(result.uid, k.team_id)

(***************************************************************************)
(* Properties of the Dashboard                                             *)
(***************************************************************************)
\* C11: change events that arrive within one delay are coalesced into one
\* re-fetch: when a timer of the subscription expires and calls fetchTeams,
\* no other timer of the subscription is still pending to call it again.
C11_BurstIsOneFetch ==
    [][dashboard'.timers < dashboard.timers => dashboard'.timers = 0]_vars

\* What fetchTeams would display if it ran alone on the database as it is.
FreshRead(uid) ==
    {[id |-> t.id, member_count |-> MemberCount(uid, t.id),
      task_count |-> TaskCount(uid, t.id)] : t \in TeamsQuery(uid)}

\* The page is mounted, no change event or timer is pending and no
\* fetchTeams call is running.
Settled ==
    /\ dashboard.fetches # <<>>
    /\ result.op = "idle"
    /\ dashboard.events = 0
    /\ dashboard.timers = 0
    /\ \A i \in DOMAIN dashboard.fetches : dashboard.fetches[i].pc = "free"

\* C12: once the notifications have stopped and every fetchTeams call has
\* completed, the displayed teams and counts are those of a fresh read of
\* the database, whatever the order in which the calls completed.
C12_SettledViewIsFresh ==
    Settled => dashboard.teams = FreshRead(DashUser)

\* C13: the teams request of fetchTeams returns exactly the teams that the
\* user owns or holds a Membership row in, an owned team without a
\* Membership row included.
C13_FetchReturnsOwnedAndJoined ==
    [][\A i \in DOMAIN dashboard.fetches :
          (dashboard.fetches[i].pc = "teams"
           /\ dashboard'.fetches[i].pc = "counts")
          => {r.id : r \in dashboard'.fetches[i].rows}
             = {t.id : t \in {x \in teams : \/ x.owner_id = DashUser
                                            \/ HasMembership(DashUser, x.id)}}
      ]_vars

(***************************************************************************)
(* Properties of CreateTeam                                                *)
(***************************************************************************)
\* The team that handleSubmit inserted is stored with the user as owner.
CtTeamStored ==
    /\ create_team.teamData # Omitted
    /\ \E t \in teams : t.id = create_team.teamData[1] /\ t.owner_id = CtUser

\* C14: CreateTeam is two separate writes with no rollback.  While the
\* membership insert is awaited the team row is already stored; success is
\* reported only by the step in which the membership insert succeeds, with
\* the team stored; and when the membership insert fails an error is
\* reported, the step changes no table, and the team stays stored with an
\* owner who has no Membership row.
C14_TwoWritesNoRollback ==
    /\ [](create_team.pc = "member" => CtTeamStored)
    /\ [][/\ (create_team'.toast = "success" /\ create_team.toast # "success")
             => /\ create_team.pc = "member"
                /\ result'.op = "InsertMember"
                /\ result'.status = "ok"
                /\ CtTeamStored'
                /\ HasMembership(CtUser, create_team.teamData[1])'
          /\ (/\ create_team.pc = "member"
              /\ create_team'.pc = "idle"
              /\ create_team'.toast # "success")
             => /\ create_team'.toast = "error"
                /\ tables' = tables
                /\ CtTeamStored'
                /\ ~HasMembership(CtUser, create_team.teamData[1])'
       ]_vars

\* C14 witness: the page has reported an error for a team that it inserted,
\* the team is stored and its owner has no Membership row in it.
C14_Witness ==
    /\ create_team.pc = "idle"
    /\ create_team.toast = "error"
    /\ CtTeamStored
    /\ ~HasMembership(CtUser, create_team.teamData[1])

====
